---------------------------- MODULE Spec2Model ----------------------------
(***************************************************************************)
(* Model of wavelet_prosody_toolkit/cwt_analysis_synthesis.py: one run of  *)
(* main()/run(), stage by stage.                                           *)
(*                                                                         *)
(* Numbers.  A real number is an integer count of "ticks", the resolution  *)
(* of a value held in memory.  np.savetxt(fmt="%f") keeps fewer digits     *)
(* than memory holds: it rounds to a multiple of Frac ticks.  Text is      *)
(* parsed back exactly.                                                    *)
(*                                                                         *)
(* Arrays.  A 1-D array is a sequence; a 2-D array is a sequence of rows.  *)
(* A text file is a sequence of lines, each line a sequence of numbers.    *)
(*                                                                         *)
(* prosody_tools (cwt_utils, f0_processing, misc) is not part of the       *)
(* source at hand; cwt_analysis, combine_scales, cwt_synthesis, process    *)
(* and extract_f0 follow the contracts of the specification document.      *)
(***************************************************************************)
EXTENDS Integers, Sequences, FiniteSets, TLC

VARIABLES
    args,           \* argparse namespace (global args, line 100/236)
    configuration,  \* the loaded configuration (lines 103-110)
    pc,             \* position in run()
    bound,          \* which of run()'s locals are bound
    raw_f0,         \* line 127
    f0,             \* line 131
    scales,         \* lines 123, 142, 148, 171
    rec,            \* lines 173/175
    files,          \* files written by this run: name -> lines
    calls,          \* history: the transforms and plots that ran, in order
    ana_in,         \* history: the signal handed to cwt_analysis
    syn_in,         \* history: the matrix and mean handed to cwt_synthesis
    error           \* history: why the run failed ("" when it has not)

vars == <<args, configuration, pc, bound, raw_f0, f0, scales, rec, files, calls,
          ana_in, syn_in, error>>

---------------------------------------------------------------------------
(* Bounds of the model *)

MaxLen == 3         \* longest signal file, in lines
MaxRows == 2        \* longest 5-column matrix file, in lines
MaxMode == 3        \* modes -1..MaxMode are tried (argparse takes any int)
MaxScales == 13     \* largest configured num_scales
Frac == 4           \* ticks per step of the "%f" text format

(* Program constants *)

DefaultMeanF0 == 100    \* default of --mean_f0
ReshapeCols == 5        \* reshape(-1, 5)

---------------------------------------------------------------------------
(* Arithmetic and arrays *)

Abs(n) == IF n < 0 THEN -n ELSE n

\* a / b rounded to the nearest integer, b > 0
RoundDiv(a, b) == (2 * a + b) \div (2 * b)

RECURSIVE SumSeq(_)
SumSeq(x) == IF x = <<>> THEN 0 ELSE x[1] + SumSeq(Tail(x))

\* np.mean of a 1-D array, to the resolution of memory
NpMean(x) == RoundDiv(SumSeq(x), Len(x))

\* the columns of a 2-D array (0 when it has no row)
NCols(m) == IF m = <<>> THEN 0 ELSE Len(m[1])

\* sum(m[lo..hi]) : the elementwise sum of rows lo..hi (1-based, inclusive)
RowSum(m, lo, hi) ==
    [t \in 1..NCols(m) |-> SumSeq([k \in 1..(hi - lo + 1) |-> m[lo + k - 1][t]])]

\* m.T
Transpose(m) == [t \in 1..NCols(m) |-> [j \in 1..Len(m) |-> m[j][t]]]

\* the values of a 2-D array in row-major order
RECURSIVE Flatten(_)
Flatten(m) == IF m = <<>> THEN <<>> ELSE m[1] \o Flatten(Tail(m))


Max(S) == CHOOSE m \in S : \A k \in S : k <= m
Min(S) == CHOOSE m \in S : \A k \in S : m <= k

Count(seq, e) == Cardinality({i \in 1..Len(seq) : seq[i] = e})

---------------------------------------------------------------------------
(* Text files: np.savetxt and np.loadtxt *)

\* "%f" : a value as the text format holds it
FmtF(v) == Frac * RoundDiv(v, Frac)

\* np.savetxt(name, x, fmt="%f", delimiter="\n") of a 1-D array: one value per line
Savetxt1(x) == [i \in 1..Len(x) |-> <<FmtF(x[i])>>]

\* np.savetxt of a 2-D array: the values of a row are joined by the delimiter,
\* here a newline, so every value is a line of its own, in row-major order
Savetxt2(m) == Savetxt1(Flatten(m))

\* np.loadtxt: the values, with the axes of length one squeezed away
Loadtxt(lines) ==
    LET R == Len(lines)
        K == NCols(lines)
    IN  [ndim |-> IF R = 0 THEN 1
                  ELSE IF R = 1 /\ K = 1 THEN 0
                  ELSE IF R = 1 \/ K = 1 THEN 1 ELSE 2,
         flat |-> Flatten(lines)]

\* a.reshape(-1, 5).T : defined when the size is a multiple of 5
ReshapeOk(a) == Len(a.flat) % ReshapeCols = 0
ReshapeT(a) ==
    [j \in 1..ReshapeCols |->
        [t \in 1..(Len(a.flat) \div ReshapeCols) |-> a.flat[(t - 1) * ReshapeCols + j]]]

Put(f, name, content) ==
    [n \in (DOMAIN f) \cup {name} |-> IF n = name THEN content ELSE f[n]]

---------------------------------------------------------------------------
(* prosody_tools, from the contracts of the specification document *)

VoicedFloor == 2 * Frac

\* f0_processing.extract_f0: a pitch value per frame, 0 where unvoiced
extract_f0(wav_form) ==
    [t \in 1..Len(wav_form) |-> IF wav_form[t] < VoicedFloor THEN 0 ELSE wav_form[t]]

\* f0_processing.process: rejects an array that is not 1-D or is empty ...
ProcessOk(raw) == raw.ndim = 1 /\ Len(raw.flat) > 0
\* ... and fills each unvoiced gap from the nearest voiced neighbour
process(raw) ==
    LET x == raw.flat
    IN  [t \in 1..Len(x) |->
            IF x[t] # 0 THEN x[t]
            ELSE LET prev == {k \in 1..(t - 1) : x[k] # 0}
                     next == {k \in (t + 1)..Len(x) : x[k] # 0}
                 IN  IF prev # {} THEN x[Max(prev)]
                     ELSE IF next # {} THEN x[Min(next)] ELSE 0]

\* ScaleGenerator: num_scales and scale_distance must be positive
ScaleScheduleOk(num_scales, scale_distance) == num_scales > 0 /\ scale_distance > 0

\* the kernel of scale i (1-based, finest first) at lag d: support grows with i
Kernel(i, d) == IF Abs(d) >= i THEN 0 ELSE i * (i - Abs(d))

\* cwt_utils.cwt_analysis: one row per scale, each the convolution of the
\* signal with that scale's kernel; rows ordered finest to coarsest
cwt_analysis(x, num_scales) ==
    [i \in 1..num_scales |->
        [t \in 1..Len(x) |->
            SumSeq([s \in 1..Len(x) |-> x[s] * Kernel(i, t - s)])]]

\* cwt_utils.combine_scales: every range [lo, hi) must lie within the rows
CombineOk(m, slices) ==
    \A j \in 1..Len(slices) : slices[j][1] < slices[j][2] /\ slices[j][2] <= Len(m)
combine_scales(m, slices) ==
    [j \in 1..Len(slices) |-> RowSum(m, slices[j][1] + 1, slices[j][2])]

\* cwt_utils.cwt_synthesis: the sum of all rows plus the mean
cwt_synthesis(m, mean) ==
    [t \in 1..NCols(m) |-> SumSeq([k \in 1..Len(m) |-> m[k][t]]) + mean]

---------------------------------------------------------------------------
(* run(), stage by stage.  Each stage maps the state of the run, a record  *)
(* of the variables, to the state after the stage.                         *)

\* the plan with a scale left out of its last range
CombinationPlan_Gap == <<<<0, 2>>, <<2, 4>>, <<4, 6>>, <<6, 8>>, <<9, 12>>>>

\* the ranges handed to combine_scales
CombinationPlan == <<<<0, 2>>, <<2, 4>>, <<4, 6>>, <<6, 8>>, <<8, 12>>>>

None == <<>>
NoFiles == [n \in {} |-> <<>>]

\* names of the files a run writes, after output_file (lines 117-121)
InterpFile == <<"interp", 0>>             \* output_file + ".interp"
CwtFile == <<"cwt", 0>>                   \* output_file + ".cwt"
BandFile(i) == <<"cwt", i>>               \* "%s.cwt.%d" % (output_file, i)
RecFile == <<"_rec.f0", 0>>               \* output_file + "_rec.f0"
OutputFile == <<"output_file", 0>>        \* args.output_file

Fail(s, why) == [s EXCEPT !.pc = "failed", !.error = why]

Called(s, what) == [s EXCEPT !.calls = Append(@, what)]

AnalysisMode(s) == (s.args.mode % 2) = 0                         \* line 126
SynthesisMode(s) == s.args.mode >= 1 \/ s.args.plot              \* line 169
SaveMode(s) == s.args.mode >= 1                                  \* line 179

\* where run() goes once the analysis block is over
AfterAnalysis(s) ==
    IF SynthesisMode(s) THEN "synthesis"
    ELSE IF SaveMode(s) THEN "save_rec"
    ELSE IF s.args.plot THEN "plot" ELSE "done"

\* lines 102-123: the configuration is loaded, scales = None
LoadConfiguration(s) ==
    IF s.args.configuration_file = "unreadable"
    THEN Fail(s, "IOError(configuration)")
    ELSE [s EXCEPT !.configuration = s.args.yaml,
                   !.pc = IF AnalysisMode(s) THEN "load_f0" ELSE AfterAnalysis(s)]

\* load_f0, lines 69-89, called at line 127
load_f0(s) ==
    LET ext == s.args.input_file.ext
        lines == s.args.input_file.lines
    IN  IF ext = "f0"
        THEN [s EXCEPT !.raw_f0 = Loadtxt(lines), !.bound = @ \cup {"raw_f0"},
                       !.pc = "process"]
        ELSE IF ext = "wav"
        THEN [s EXCEPT !.raw_f0 = [ndim |-> 1, flat |-> extract_f0(Flatten(lines))],
                       !.bound = @ \cup {"raw_f0"}, !.pc = "process"]
        ELSE Fail(s, "UnboundLocalError(raw_f0)")

\* lines 130-135: pre-processing, and the first plot
ProcessF0(s) ==
    IF ~ProcessOk(s.raw_f0)
    THEN Fail(s, "InputError(process)")
    ELSE LET n == [s EXCEPT !.f0 = process(s.raw_f0), !.bound = @ \cup {"f0"},
                            !.pc = "write_interp"]
         IN  IF s.args.plot THEN Called(n, "plot_f0") ELSE n

\* lines 137-139
WriteInterp(s) ==
    [s EXCEPT !.files = Put(@, InterpFile, Savetxt1(s.f0)), !.pc = "cwt_analysis"]

\* lines 141-145: the arguments are evaluated, then cwt_analysis runs
AnalysisTransform(s) ==
    LET mean == NpMean(s.f0)
        x == [t \in 1..Len(s.f0) |-> s.f0[t] - mean]
        c == s.configuration
    IN  IF ~c.has_wavelet
        THEN Fail(s, "TypeError(configuration)")
        ELSE IF ~ScaleScheduleOk(c.num_scales, c.scale_distance)
        THEN Fail(s, "ConfigurationError(scales)")
        ELSE Called([s EXCEPT !.scales = cwt_analysis(x, c.num_scales),
                              !.bound = @ \cup {"scales"},
                              !.ana_in = x,
                              !.pc = "combine_scales"], "cwt_analysis")

\* lines 147-151
ScaleCombiner(s) ==
    IF ~CombineOk(s.scales, CombinationPlan)
    THEN Fail(s, "ConfigurationError(combine)")
    ELSE Called([s EXCEPT !.scales = combine_scales(s.scales, CombinationPlan),
                          !.pc = "write_cwt"], "combine_scales")

\* the matrix written as it is held, band by band
WriteCwt_NoTranspose(s) ==
    [s EXCEPT !.files = Put(@, CwtFile, Savetxt2(s.scales)),
              !.pc = "write_bands"]

\* lines 153-155
WriteCwt(s) ==
    [s EXCEPT !.files = Put(@, CwtFile, Savetxt2(Transpose(s.scales))),
              !.pc = "write_bands"]

\* the loop naming each file as its log line does, by i and not i + 1
RECURSIVE WriteBandsFrom_LogName(_, _, _)
WriteBandsFrom_LogName(f, m, i) ==
    IF i >= Len(m) THEN f
    ELSE WriteBandsFrom_LogName(Put(f, BandFile(i), Savetxt1(m[i + 1])), m, i + 1)

\* lines 157-162: the loop over the bands
RECURSIVE WriteBandsFrom(_, _, _)
WriteBandsFrom(f, m, i) ==
    IF i >= Len(m) THEN f
    ELSE WriteBandsFrom(Put(f, BandFile(i + 1), Savetxt1(m[i + 1])), m, i + 1)

WriteBands(s) ==
    [s EXCEPT !.files = WriteBandsFrom(@, s.scales, 0), !.pc = AfterAnalysis(s)]

\* the given mean used whenever a reconstruction is saved
UsesGivenMean_AnySaveMode(s) == s.args.mode >= 1

\* line 172: the mean given on the command line is used in mode 1 only
UsesGivenMean(s) == s.args.mode = 1

\* lines 169-175
SynthesisTransform(s) ==
    LET a == Loadtxt(s.args.input_file.lines)
        reload == "scales" \notin s.bound
        m == IF reload THEN ReshapeT(a) ELSE s.scales
        n == IF reload THEN [s EXCEPT !.scales = m, !.bound = @ \cup {"scales"}] ELSE s
        after == IF SaveMode(s) THEN "save_rec" ELSE "plot"
    IN  IF reload /\ ~ReshapeOk(a)
        THEN Fail(s, "ValueError(reshape)")
        ELSE IF UsesGivenMean(s)
        THEN Called([n EXCEPT !.rec = cwt_synthesis(m, s.args.mean_f0),
                              !.bound = @ \cup {"rec"},
                              !.syn_in = [m |-> m, mean |-> s.args.mean_f0],
                              !.pc = after], "cwt_synthesis")
        ELSE IF "f0" \notin s.bound
        THEN Fail(n, "UnboundLocalError(f0)")
        ELSE Called([n EXCEPT !.rec = cwt_synthesis(m, NpMean(s.f0)),
                              !.bound = @ \cup {"rec"},
                              !.syn_in = [m |-> m, mean |-> NpMean(s.f0)],
                              !.pc = after], "cwt_synthesis")

\* lines 179-189
SaveRec(s) ==
    LET name == IF s.args.mode = 1 THEN OutputFile ELSE RecFile
    IN  [s EXCEPT !.files = Put(@, name, Savetxt1(s.rec)),
                  !.pc = IF s.args.plot THEN "plot" ELSE "done"]

\* lines 191-203: max(rec) needs a sample
Plot(s) ==
    IF Len(s.scales) > 0 /\ s.rec = <<>>
    THEN Fail(s, "ValueError(max)")
    ELSE Called([s EXCEPT !.pc = "done"], "plot")

\* one stage of run()
Step(s) ==
    CASE s.pc = "configuration" -> LoadConfiguration(s)
      [] s.pc = "load_f0" -> load_f0(s)
      [] s.pc = "process" -> ProcessF0(s)
      [] s.pc = "write_interp" -> WriteInterp(s)
      [] s.pc = "cwt_analysis" -> AnalysisTransform(s)
      [] s.pc = "combine_scales" -> ScaleCombiner(s)
      [] s.pc = "write_cwt" -> WriteCwt(s)
      [] s.pc = "write_bands" -> WriteBands(s)
      [] s.pc = "synthesis" -> SynthesisTransform(s)
      [] s.pc = "save_rec" -> SaveRec(s)
      [] s.pc = "plot" -> Plot(s)
      [] OTHER -> s

Ended(s) == s.pc \in {"done", "failed"}

\* run() from state s to its end
RECURSIVE RunToEnd(_)
RunToEnd(s) == IF Ended(s) THEN s ELSE RunToEnd(Step(s))

---------------------------------------------------------------------------
(* The inputs of a run *)

\* the largest scale index the combination plan reads
PlanTop == Max({CombinationPlan[j][2] : j \in 1..Len(CombinationPlan)})

Modes == (-1)..MaxMode

InVals == {0, 5, 8}

SignalFiles == UNION {[1..n -> {<<v>> : v \in InVals}] : n \in 0..MaxLen}

RowChoices == {<<0, 0, 0, 0, 0>>, <<3, -1, 4, 0, -6>>}

MatrixFiles == UNION {[1..r -> RowChoices] : r \in 1..MaxRows}

InputFiles == [ext : {"f0", "wav", "cwt"}, lines : SignalFiles \cup MatrixFiles]

NumScalesChoices == {0, PlanTop - 4} \cup (PlanTop..MaxScales)

NoConfiguration == [has_wavelet |-> FALSE, num_scales |-> 0, scale_distance |-> 0]

\* configs/default.yaml, after the comment of line 141
DefaultYaml == [has_wavelet |-> TRUE, num_scales |-> PlanTop, scale_distance |-> 1]

YamlChoices ==
    {NoConfiguration} \cup
    {[has_wavelet |-> TRUE, num_scales |-> n, scale_distance |-> 1] : n \in NumScalesChoices}

ConfigurationInputs ==
    {<<"none", DefaultYaml>>, <<"unreadable", DefaultYaml>>} \cup
    {<<"user", y>> : y \in YamlChoices}

\* -m/--mean_f0: given on the command line, or the default of line 223
MeanInputs ==
    {[mean_given |-> TRUE, mean_f0 |-> m] : m \in {0, 6}} \cup
    {[mean_given |-> FALSE, mean_f0 |-> DefaultMeanF0 * Frac]}

\* main(), lines 216-236: the parsed arguments
ParseArgs ==
    {[mode |-> md, plot |-> pl, mean_given |-> mn.mean_given, mean_f0 |-> mn.mean_f0,
      input_file |-> inp, configuration_file |-> cf[1], yaml |-> cf[2]] :
        md \in Modes, pl \in BOOLEAN, mn \in MeanInputs, inp \in InputFiles,
        cf \in ConfigurationInputs}

\* the state of a run that starts with arguments a
Start(a) ==
    [args |-> a, configuration |-> NoConfiguration, pc |-> "configuration",
     bound |-> {}, raw_f0 |-> [ndim |-> 1, flat |-> None], f0 |-> None,
     scales |-> None, rec |-> None, files |-> NoFiles, calls |-> <<>>,
     ana_in |-> None, syn_in |-> [m |-> None, mean |-> 0], error |-> ""]

---------------------------------------------------------------------------
(* The state machine *)

Cur ==
    [args |-> args, configuration |-> configuration, pc |-> pc, bound |-> bound,
     raw_f0 |-> raw_f0, f0 |-> f0, scales |-> scales, rec |-> rec, files |-> files,
     calls |-> calls, ana_in |-> ana_in, syn_in |-> syn_in, error |-> error]

Is(s) ==
    /\ args = s.args
    /\ configuration = s.configuration
    /\ pc = s.pc
    /\ bound = s.bound
    /\ raw_f0 = s.raw_f0
    /\ f0 = s.f0
    /\ scales = s.scales
    /\ rec = s.rec
    /\ files = s.files
    /\ calls = s.calls
    /\ ana_in = s.ana_in
    /\ syn_in = s.syn_in
    /\ error = s.error

Becomes(s) ==
    /\ args' = s.args
    /\ configuration' = s.configuration
    /\ pc' = s.pc
    /\ bound' = s.bound
    /\ raw_f0' = s.raw_f0
    /\ f0' = s.f0
    /\ scales' = s.scales
    /\ rec' = s.rec
    /\ files' = s.files
    /\ calls' = s.calls
    /\ ana_in' = s.ana_in
    /\ syn_in' = s.syn_in
    /\ error' = s.error

Init == \E a \in ParseArgs : Is(Start(a))

DoLoadConfiguration == pc = "configuration" /\ Becomes(LoadConfiguration(Cur))
DoLoadF0 == pc = "load_f0" /\ Becomes(load_f0(Cur))
DoProcessF0 == pc = "process" /\ Becomes(ProcessF0(Cur))
DoWriteInterp == pc = "write_interp" /\ Becomes(WriteInterp(Cur))
DoAnalysisTransform == pc = "cwt_analysis" /\ Becomes(AnalysisTransform(Cur))
DoScaleCombiner == pc = "combine_scales" /\ Becomes(ScaleCombiner(Cur))
DoWriteCwt == pc = "write_cwt" /\ Becomes(WriteCwt(Cur))
DoWriteBands == pc = "write_bands" /\ Becomes(WriteBands(Cur))
DoSynthesisTransform == pc = "synthesis" /\ Becomes(SynthesisTransform(Cur))
DoSaveRec == pc = "save_rec" /\ Becomes(SaveRec(Cur))
DoPlot == pc = "plot" /\ Becomes(Plot(Cur))

Next ==
    \/ DoLoadConfiguration
    \/ DoLoadF0
    \/ DoProcessF0
    \/ DoWriteInterp
    \/ DoAnalysisTransform
    \/ DoScaleCombiner
    \/ DoWriteCwt
    \/ DoWriteBands
    \/ DoSynthesisTransform
    \/ DoSaveRec
    \/ DoPlot

Spec == Init /\ [][Next]_vars

---------------------------------------------------------------------------
(* Vocabulary of the properties *)

Transforms == {"cwt_analysis", "combine_scales", "cwt_synthesis"}

\* the transforms that ran, in order, without the plots
RECURSIVE TransformsOf(_)
TransformsOf(c) ==
    IF c = <<>> THEN <<>>
    ELSE IF c[1] \in Transforms THEN <<c[1]>> \o TransformsOf(Tail(c))
    ELSE TransformsOf(Tail(c))

AnalysisFiles == {InterpFile, CwtFile} \cup {BandFile(j) : j \in 1..Len(CombinationPlan)}

\* the full ScaleSet of this run, recomputed from what cwt_analysis was given
FullScaleSet == cwt_analysis(ana_in, configuration.num_scales)

\* band j at sample t, summed directly over the rows of the plan's range j
BandAt(j, t) ==
    LET lo == CombinationPlan[j][1]
        hi == CombinationPlan[j][2]
    IN  SumSeq([k \in 1..(hi - lo) |-> FullScaleSet[lo + k][t]])

AnalysisSucceeded == pc = "done" /\ (args.mode % 2) = 0

---------------------------------------------------------------------------
(* C1 *)

RanAnalysisOnly ==
    /\ TransformsOf(calls) \in {<<"cwt_analysis", "combine_scales">>,
                               <<"cwt_analysis", "combine_scales", "cwt_synthesis">>}
    /\ DOMAIN files = AnalysisFiles

RanSynthesisOnly ==
    /\ TransformsOf(calls) = <<"cwt_synthesis">>
    /\ syn_in.mean = args.mean_f0
    /\ DOMAIN files = {OutputFile}

RanBoth ==
    /\ TransformsOf(calls) = <<"cwt_analysis", "combine_scales", "cwt_synthesis">>
    /\ DOMAIN files = AnalysisFiles \cup {RecFile}

\* C1: every mode value argparse accepts makes run() perform the stage
\* sequence of exactly one of AnalysisOnly, SynthesisOnly and Both; no run
\* completes having performed none of them, and no synthesis step reads a
\* signal mean that was never computed.
C1_EveryModeIsOneOfThree ==
    /\ pc = "done" => (RanAnalysisOnly \/ RanSynthesisOnly \/ RanBoth)
    /\ error # "UnboundLocalError(f0)"

---------------------------------------------------------------------------
(* C2 *)

\* C2: in SynthesisOnly mode with no mean given, the run fails before
\* cwt_synthesis runs and writes no reconstruction; no default is used.
C2_MissingMeanIsAnError ==
    (args.mode = 1 /\ ~args.mean_given) =>
        /\ pc # "done"
        /\ Count(calls, "cwt_synthesis") = 0
        /\ OutputFile \notin DOMAIN files

---------------------------------------------------------------------------
(* C3 *)

\* C3: a failed run has written no file.
C3_FailedRunWritesNothing == pc = "failed" => DOMAIN files = {}

---------------------------------------------------------------------------
(* C4 *)

ConfigurationOrInputError ==
    error \in {"IOError(configuration)", "TypeError(configuration)",
               "ConfigurationError(scales)", "ConfigurationError(combine)",
               "UnboundLocalError(raw_f0)", "InputError(process)"}

\* C4: when a run ends in a configuration error or an input error, no
\* transform has run in it.
C4_ErrorsBeforeAnyTransform ==
    ConfigurationOrInputError => TransformsOf(calls) = <<>>

---------------------------------------------------------------------------
(* C5 *)

NSamples == Len(f0)
NBands == Len(CombinationPlan)

\* the artifacts an analysis writes: the pre-processed signal, the combined
\* bands one value per line (sample by sample, the bands of a sample in
\* order), and each band in a file of its own, all in the text format
WritesCombinedArtifacts ==
    /\ Len(files[InterpFile]) = NSamples
    /\ \A t \in 1..NSamples : files[InterpFile][t] = <<FmtF(f0[t])>>
    /\ Len(files[CwtFile]) = NSamples * NBands
    /\ \A t \in 1..NSamples : \A j \in 1..NBands :
          files[CwtFile][(t - 1) * NBands + j] = <<FmtF(BandAt(j, t))>>
    /\ \A j \in 1..NBands :
          /\ Len(files[BandFile(j)]) = NSamples
          /\ \A t \in 1..NSamples : files[BandFile(j)][t] = <<FmtF(BandAt(j, t))>>

\* some file holds the full ScaleSet, N rows by num_scales columns
WritesFullScaleSet ==
    \E n \in DOMAIN files :
        /\ Len(files[n]) = NSamples * configuration.num_scales
        /\ \A t \in 1..NSamples : \A i \in 1..configuration.num_scales :
              files[n][(t - 1) * configuration.num_scales + i] = <<FmtF(FullScaleSet[i][t])>>

\* C5 as stated: a successful AnalysisOnly or Both run writes the
\* pre-processed signal, the full ScaleSet, each combined band and the
\* combined-band matrix.
C5_WritesFourArtifacts ==
    AnalysisSucceeded => (WritesCombinedArtifacts /\ WritesFullScaleSet)

\* C5 amended: a successful AnalysisOnly or Both run writes the pre-processed
\* signal, each combined band and the combined-band matrix, and nothing else
\* but the reconstruction; the full ScaleSet is not written.
C5_WritesThreeArtifacts ==
    AnalysisSucceeded =>
        /\ AnalysisFiles \subseteq DOMAIN files
        /\ DOMAIN files \subseteq AnalysisFiles \cup {RecFile}
        /\ WritesCombinedArtifacts
        /\ ~WritesFullScaleSet

\* a successful analysis of a signal that is not constant
C5_Witness ==
    /\ AnalysisSucceeded
    /\ NSamples >= 2
    /\ \E t \in 1..NSamples : \E j \in 1..NBands : BandAt(j, t) # 0 

---------------------------------------------------------------------------
(* C6 *)

\* C6: in Both mode cwt_synthesis runs once, on the bands combine_scales
\* produced in this run and with the mean of the pre-processed signal, the
\* value subtracted before cwt_analysis; args.mean_f0 is not used; the run
\* writes the analysis artifacts and the reconstruction.
C6_BothUsesComputedMean ==
    (args.mode = 2 /\ pc = "done") =>
        /\ Count(calls, "cwt_synthesis") = 1
        /\ Len(syn_in.m) = NBands
        /\ \A j \in 1..NBands : \A t \in 1..NSamples : syn_in.m[j][t] = BandAt(j, t)
        /\ syn_in.mean = NpMean(f0)
        /\ \A t \in 1..NSamples : ana_in[t] + syn_in.mean = f0[t]
        /\ Len(rec) = NSamples
        /\ \A t \in 1..NSamples :
              rec[t] = SumSeq([j \in 1..NBands |-> BandAt(j, t)]) + NpMean(f0)
        /\ DOMAIN files = AnalysisFiles \cup {RecFile}
        /\ files[RecFile] = [t \in 1..NSamples |-> <<FmtF(rec[t])>>]

\* a Both run that ended, given a mean_f0 other than the signal's mean
C6_Witness ==
    /\ args.mode = 2
    /\ pc = "done"
    /\ args.mean_given
    /\ args.mean_f0 # NpMean(f0)
    /\ \E t \in 1..NSamples : ana_in[t] # 0

---------------------------------------------------------------------------
(* C7 *)

\* the sum of rows 1..n of the full ScaleSet at sample t
ScaleSumAt(n, t) == SumSeq([i \in 1..n |-> FullScaleSet[i][t]])

\* C7 as stated: whenever the analysis succeeds, the reconstruction of Both
\* mode is the sum of all num_scales rows of the full ScaleSet plus the mean.
C7_BandsSumToAllScales ==
    (args.mode = 2 /\ pc = "done") =>
        \A t \in 1..NSamples :
            rec[t] = ScaleSumAt(configuration.num_scales, t) + NpMean(f0)

\* C7 amended: the reconstruction of Both mode is the sum of the first 12
\* rows of the full ScaleSet, those the plan covers, plus the mean; it is the
\* sum of all rows when num_scales is 12.
C7_BandsSumToPlanScales ==
    (args.mode = 2 /\ pc = "done") =>
        /\ \A t \in 1..NSamples : rec[t] = ScaleSumAt(PlanTop, t) + NpMean(f0)
        /\ configuration.num_scales = PlanTop =>
              \A t \in 1..NSamples :
                  rec[t] = ScaleSumAt(configuration.num_scales, t) + NpMean(f0)

\* a Both run that ended, with more scales than the plan covers and a
\* non-zero row beyond the plan
C7_Witness ==
    /\ args.mode = 2
    /\ pc = "done"
    /\ configuration.num_scales > PlanTop
    /\ \E t \in 1..NSamples : FullScaleSet[configuration.num_scales][t] # 0

---------------------------------------------------------------------------
(* C8 *)

\* C8: SynthesisOnly on a file of N rows by k columns, for any k >= 1, ends
\* with a reconstruction of length N whose sample t is the sum of the k
\* values of row t of the file plus the given mean.
C8_AnyBandCount ==
    LET lines == args.input_file.lines
    IN  (/\ args.mode = 1
         /\ ~args.plot
         /\ args.configuration_file # "unreadable"
         /\ Len(lines) >= 1
         /\ pc \in {"done", "failed"})
        =>
        /\ pc = "done"
        /\ Len(rec) = Len(lines)
        /\ \A t \in 1..Len(lines) : rec[t] = SumSeq(lines[t]) + args.mean_f0

---------------------------------------------------------------------------
(* C9 *)

\* the run that differs from this one only in -P/--plot, run to its end
TwinRun == RunToEnd(Start([args EXCEPT !.plot = ~args.plot]))

\* C9: for the modes 0, 1 and 2, a run and the run that differs from it only
\* in whether plotting is enabled write the same files with the same
\* contents and end alike.
C9_PlotChangesNothing ==
    (pc \in {"done", "failed"} /\ args.mode \in {0, 1, 2}) =>
        /\ TwinRun.files = files
        /\ TwinRun.pc = pc

---------------------------------------------------------------------------
(* C10 *)

\* the matrix a SynthesisOnly run reloads from the .cwt file of this run
Reloaded == ReshapeT(Loadtxt(files[CwtFile]))

\* the SynthesisOnly run on the .cwt file of this run, given this run's mean
SynthesisOfCwtFile ==
    RunToEnd(Start([args EXCEPT !.mode = 1, !.plot = FALSE,
                                !.input_file = [ext |-> "cwt", lines |-> files[CwtFile]],
                                !.mean_given = TRUE, !.mean_f0 = NpMean(f0)]))

\* C10 as stated: the reloaded matrix has the shape of the bands and its row
\* j is band j; SynthesisOnly on the file, with the signal's mean, gives the
\* reconstruction of Both mode.
C10_RoundTripExact ==
    (args.mode = 2 /\ pc = "done") =>
        /\ Len(Reloaded) = NBands
        /\ \A j \in 1..NBands : Reloaded[j] = [t \in 1..NSamples |-> BandAt(j, t)]
        /\ SynthesisOfCwtFile.pc = "done"
        /\ SynthesisOfCwtFile.rec = rec

\* C10 amended: the reloaded matrix has the shape of the bands and its row j
\* is band j with every value rounded to the precision of the "%f" text
\* format, in the same order; SynthesisOnly on the file, with the signal's
\* mean, gives the sum of the rounded bands plus the mean, which is within
\* half a step of the format per band of the reconstruction of Both mode.
C10_RoundTripRounded ==
    (args.mode = 2 /\ pc = "done") =>
        /\ Len(Reloaded) = NBands
        /\ \A j \in 1..NBands : Reloaded[j] = [t \in 1..NSamples |-> FmtF(BandAt(j, t))]
        /\ SynthesisOfCwtFile.pc = "done"
        /\ Len(SynthesisOfCwtFile.rec) = NSamples
        /\ \A t \in 1..NSamples :
              /\ SynthesisOfCwtFile.rec[t] =
                    SumSeq([j \in 1..NBands |-> FmtF(BandAt(j, t))]) + NpMean(f0)
              /\ 2 * Abs(SynthesisOfCwtFile.rec[t] - rec[t]) <= NBands * Frac

\* a Both run that ended, with bands that differ from one another and a
\* value the text format rounds
C10_Witness ==
    /\ args.mode = 2
    /\ pc = "done"
    /\ NSamples >= 2
    /\ \E t \in 1..NSamples : BandAt(1, t) # BandAt(NBands, t)
    /\ \E t \in 1..NSamples : \E j \in 1..NBands : FmtF(BandAt(j, t)) # BandAt(j, t)

=============================================================================
